---- MODULE Spec2Model ----
(***************************************************************************)
(* g-sorcery package database (g_sorcery/package_db.py): one PackageDB     *)
(* instance over one directory.  The directory is a partial function from  *)
(* relative paths (tuples of path components) to file contents, the        *)
(* in-memory tree is self.db, and sync() is a sequence of steps.           *)
(***************************************************************************)
EXTENDS Integers, Sequences, FiniteSets, TLC

VARIABLES
    db,          \* self.db: [info, categories, packages]
    repo_uri,    \* self.repo_uri
    db_uri,      \* self.db_uri
    disk,        \* files of self.directory: relative path -> content
    subclassed,  \* TRUE iff the instance's class overrides get_real_db_uri
    pc,          \* position inside sync(); "idle" between calls
    remote,      \* what the last sync() found at the remote end
    download_dir,\* sync(): download_dir exists
    temp_dir,    \* sync(): temp_dir exists
    tempdb_dir,  \* sync(): files of tempdb_dir; <<>> when there is none
    tempdb_live, \* sync(): tempdb_dir exists
    ret,         \* the last call and how it ended
    registered,  \* history: categories ever passed to add_category or loaded by read()
    fresh,       \* history: the calls since the last completed write()
    pre,         \* history: disk and db at the start of the last sync()
    staged,      \* history: outcome of the staging check_manifest of the last sync()
    calls,       \* number of calls made so far
    ebuild       \* the last EbuildGeneratorFromFile.generate: package, template file, result

vars == <<db, repo_uri, db_uri, disk, subclassed, pc, remote, download_dir,
          temp_dir, tempdb_dir, tempdb_live, ret, registered, fresh, pre, staged,
          calls, ebuild>>

-----------------------------------------------------------------------------
(* Bounds and inputs *)

MaxCorrupt == 1
MaxCalls == 5

Categories == {"app-test", "app-other"}
PackageInputs == {<<"app-test", "metadata_tester", "0.1">>, <<"missing", "p", "1">>}
EmptyDict == <<>>
Records == {EmptyDict, ("description" :> "testing ebuild")}
RemoteUri == "http://remote/db"
RepoArgs == {""}
DbArgs == {"", RemoteUri}

-----------------------------------------------------------------------------
(* File names and paths *)

URI_NAME == "uri.json"
INFO_NAME == "info.json"
CATEGORIES_NAME == "categories.json"
PACKAGES_NAME == "packages.json"
VERSIONS_NAME == "versions.json"
MANIFEST_NAME == "manifest.json"

\* os.path.isdir(path): directories are created only together with a file
\* (FileJSON.write, copytree) and removed only by rmtree of the whole tree
IsDir(d, path) ==
    \E q \in DOMAIN d : Len(q) > Len(path) /\ SubSeq(q, 1, Len(path)) = path

\* the files below a directory (os.walk)
Walk(d, path) ==
    {q \in DOMAIN d : Len(q) > Len(path) /\ SubSeq(q, 1, Len(path)) = path}

\* lexicographic order of the relative path strings of the model's files
SortedPaths ==
    << <<"app-other", "packages.json">>,
       <<"app-test", "metadata_tester", "0.1.json">>,
       <<"app-test", "metadata_tester", "versions.json">>,
       <<"app-test", "notes.txt">>,
       <<"app-test", "packages.json">>,
       <<"categories.json">>,
       <<"info.json">>,
       <<"manifest.json">>,
       <<"uri.json">> >>

-----------------------------------------------------------------------------
(* JSON documents: json.dump(content, f, indent=2, sort_keys=True) and     *)
(* json.load(f).  A dictionary is written as its set of members, a list as *)
(* its set of indexed items; flip = 1 marks a file with a changed byte,    *)
(* which no longer parses.                                                 *)

DumpDict(dict) ==
    [kind |-> "object", json |-> {<<k, dict[k]>> : k \in DOMAIN dict}, flip |-> 0]

DumpList(list) ==
    [kind |-> "array", json |-> {<<i, list[i]>> : i \in 1..Len(list)}, flip |-> 0]

\* json.load of a document: a dictionary for an object, a list for an array
LoadDict(content) ==
    [k \in {m[1] : m \in content.json} |->
        (CHOOSE m \in content.json : m[1] = k)[2]]

LoadList(content) ==
    [i \in 1..Cardinality(content.json) |->
        (CHOOSE m \in content.json : m[1] = i)[2]]

\* dumping a dictionary of dictionaries (categories.json), and loading it
DumpNested(dict) ==
    [kind |-> "object",
     json |-> {<<k, {<<a, dict[k][a]>> : a \in DOMAIN dict[k]}>> : k \in DOMAIN dict},
     flip |-> 0]

LoadNested(content) ==
    [k \in {m[1] : m \in content.json} |->
        LET inner == (CHOOSE m \in content.json : m[1] = k)[2]
        IN  [a \in {n[1] : n \in inner} |-> (CHOOSE n \in inner : n[1] = a)[2]]]

\* list(dictionary): its keys, in the dictionary's order
ListOfKeys(dict) ==
    LET S == DOMAIN dict
    IN  IF S = {} THEN <<>> ELSE
        CHOOSE s \in [1..Cardinality(S) -> S] : \A x \in S : \E i \in DOMAIN s : s[i] = x

-----------------------------------------------------------------------------
(* FileJSON *)

\* FileJSON.read: creates the file with one "" entry per mandatory key when
\* it is absent; otherwise loads it and raises KeyError on a missing key
FileJSON_read(d, path, mandatories) ==
    IF path \notin DOMAIN d
    THEN LET content == DumpDict([k \in mandatories |-> ""])
         IN  [disk |-> (path :> content) @@ d, content |-> content, exc |-> "none"]
    ELSE IF d[path].flip = 1
    THEN [disk |-> d, content |-> d[path], exc |-> "ValueError"]
    ELSE IF d[path].kind = "object" /\
            \E k \in mandatories : k \notin {m[1] : m \in d[path].json}
    THEN [disk |-> d, content |-> d[path], exc |-> "KeyError"]
    ELSE [disk |-> d, content |-> d[path], exc |-> "none"]

\* FileJSON.write with no mandatory key missing: overwrites the file
FileJSON_write(d, path, content) == (path :> content) @@ d

\* hash_file(name, hashlib.md5()): the digest of the file's content
Md5(content) == [md5 |-> content]

-----------------------------------------------------------------------------
(* PackageDB: uri record and tree skeleton *)

\* reset_db
EmptyDb == [info |-> EmptyDict, categories |-> EmptyDict, packages |-> EmptyDict]

\* reset_uri(repo_uri, db_uri): an empty argument keeps the stored value;
\* the record is written back in every case
reset_uri(d, repo_arg, db_arg) ==
    LET r == FileJSON_read(d, <<URI_NAME>>, {"repo_uri", "db_uri"})
    IN  IF r.exc # "none"
        THEN [disk |-> r.disk, repo_uri |-> "", db_uri |-> "", exc |-> r.exc]
        ELSE LET uri == LoadDict(r.content)
                 repo == IF repo_arg = "" THEN uri["repo_uri"] ELSE repo_arg
                 dbu == IF db_arg = "" THEN uri["db_uri"] ELSE db_arg
                 out == ("repo_uri" :> repo) @@ ("db_uri" :> dbu) @@ uri
             IN  [disk |-> FileJSON_write(r.disk, <<URI_NAME>>, DumpDict(out)),
                  repo_uri |-> repo, db_uri |-> dbu, exc |-> "none"]

\* clean: shutil.rmtree(self.directory), then reset_uri(self.repo_uri,
\* self.db_uri); the caller resets the tree (reset_db)
clean(repo, dbu) == reset_uri(<<>>, repo, dbu)

-----------------------------------------------------------------------------
(* Manifest *)

FixedNames == {<<INFO_NAME>>, <<CATEGORIES_NAME>>, <<URI_NAME>>}

\* check_manifest: (result, errors), or an exception
check_manifest(d) ==
    LET r == FileJSON_read(d, <<MANIFEST_NAME>>, {})
        listed == {m[1] : m \in r.content.json}
        manifest == LoadDict(r.content)
        bad == {name \in listed : Md5(r.disk[name]) # manifest[name]}
    IN  IF r.exc # "none"
        THEN [disk |-> r.disk, exc |-> r.exc, val |-> <<TRUE, <<>>>>]
        ELSE IF \E name \in FixedNames : name \notin listed
        THEN [disk |-> r.disk, exc |-> "BadManifest", val |-> <<TRUE, <<>>>>]
        ELSE IF \E name \in listed : name \notin DOMAIN r.disk
        THEN [disk |-> r.disk, exc |-> "FileNotFoundError", val |-> <<TRUE, <<>>>>]
        ELSE [disk |-> r.disk, exc |-> "none",
              val |-> <<bad = {}, SelectSeq(SortedPaths, LAMBDA name : name \in bad)>>]

\* manifest() without the walk over the category directories: only the
\* three fixed files are hashed
manifest_fixed_only(d) ==
    LET r == FileJSON_read(d, <<CATEGORIES_NAME>>, {})
    IN  IF r.exc # "none"
        THEN [disk |-> r.disk, exc |-> r.exc]
        ELSE IF \E name \in FixedNames : name \notin DOMAIN r.disk
        THEN [disk |-> r.disk, exc |-> "FileNotFoundError"]
        ELSE [disk |-> FileJSON_write(r.disk, <<MANIFEST_NAME>>,
                           DumpDict([name \in FixedNames |-> Md5(r.disk[name])])),
              exc |-> "none"]

\* manifest: hashes the three fixed files and every file below the directory
\* of every category of categories.json, and writes manifest.json
manifest(d) ==
    LET r == FileJSON_read(d, <<CATEGORIES_NAME>>, {})
        categories == {m[1] : m \in r.content.json}
        tracked == FixedNames \cup UNION {Walk(r.disk, <<c>>) : c \in categories}
    IN  IF r.exc # "none"
        THEN [disk |-> r.disk, exc |-> r.exc]
        ELSE IF \E name \in FixedNames : name \notin DOMAIN r.disk
        THEN [disk |-> r.disk, exc |-> "FileNotFoundError"]
        ELSE IF \E c \in categories : ~IsDir(r.disk, <<c>>)
        THEN [disk |-> r.disk, exc |-> "EmptyCategory"]
        ELSE [disk |-> FileJSON_write(r.disk, <<MANIFEST_NAME>>,
                           DumpDict([name \in tracked |-> Md5(r.disk[name])])),
              exc |-> "none"]

-----------------------------------------------------------------------------
(* write() *)

\* the files write() produces for one category: <version>.json and
\* versions.json per package, and the category's packages.json
CategoryFiles(tree, c) ==
    LET pk == tree.packages[c]
        versionFiles == {<<c, p, v \o ".json">> : <<p, v>> \in
                            UNION {{<<p, v>> : v \in DOMAIN pk[p]} : p \in DOMAIN pk}}
        listFiles == {<<c, p, VERSIONS_NAME>> : p \in DOMAIN pk}
    IN  [q \in versionFiles \cup listFiles \cup {<<c, PACKAGES_NAME>>} |->
            IF Len(q) = 2 THEN DumpList(ListOfKeys(pk))
            ELSE IF q \in listFiles THEN DumpList(ListOfKeys(pk[q[2]]))
            ELSE DumpDict(pk[q[2]][CHOOSE v \in DOMAIN pk[q[2]] : v \o ".json" = q[3]])]

\* the loop of write() over the categories, taken in the order `order`:
\* stops with 'Empty category' at the first one that is no key of packages
RECURSIVE WriteCategories(_, _, _)
WriteCategories(d, tree, order) ==
    IF order = <<>> THEN [disk |-> d, exc |-> "none"]
    ELSE IF Head(order) \notin DOMAIN tree.packages
    THEN [disk |-> d, exc |-> "EmptyCategory"]
    ELSE WriteCategories(CategoryFiles(tree, Head(order)) @@ d, tree, Tail(order))

\* write(): info.json and categories.json first, then the categories
write(d, tree, order) ==
    LET d1 == FileJSON_write(d, <<INFO_NAME>>, DumpDict(tree.info))
        d2 == FileJSON_write(d1, <<CATEGORIES_NAME>>, DumpNested(tree.categories))
    IN  WriteCategories(d2, tree, order)

-----------------------------------------------------------------------------
(* read() *)

\* the items a loop over a loaded document visits
Items(content) ==
    IF content.kind = "array" THEN LoadList(content)
    ELSE ListOfKeys(LoadDict(content))

\* the loop over the versions of one package
RECURSIVE ReadVersions(_, _, _, _)
ReadVersions(s, c, name, versions) ==
    IF versions = <<>> THEN s
    ELSE LET v == Head(versions)
             r == FileJSON_read(s.disk, <<c, name, v \o ".json">>, {})
         IN  IF r.exc # "none"
             THEN [s EXCEPT !.disk = r.disk, !.exc = r.exc]
             ELSE ReadVersions(
                    [disk |-> r.disk,
                     db |-> [s.db EXCEPT !.packages[c][name] = (v :> LoadDict(r.content)) @@ @],
                     exc |-> "none"],
                    c, name, Tail(versions))

\* the loop over the packages of one category
RECURSIVE ReadPackages(_, _, _)
ReadPackages(s, c, names) ==
    IF names = <<>> THEN s
    ELSE LET name == Head(names)
             r == FileJSON_read(s.disk, <<c, name, VERSIONS_NAME>>, {})
             s1 == [disk |-> r.disk,
                    db |-> [s.db EXCEPT !.packages[c] = (name :> EmptyDict) @@ @],
                    exc |-> "none"]
             s2 == ReadVersions(s1, c, name, Items(r.content))
         IN  IF r.exc # "none"
             THEN [s EXCEPT !.disk = r.disk, !.exc = r.exc]
             ELSE IF r.content.json = {}
             THEN [s EXCEPT !.disk = r.disk, !.exc = "EmptyPackage"]
             ELSE IF s2.exc # "none" THEN s2
             ELSE ReadPackages(s2, c, Tail(names))

\* the loop over the loaded categories, taken in the order `order`
RECURSIVE ReadCategories(_, _)
ReadCategories(s, order) ==
    IF order = <<>> THEN s
    ELSE LET c == Head(order)
             r == FileJSON_read(s.disk, <<c, PACKAGES_NAME>>, {})
             s1 == [disk |-> r.disk,
                    db |-> [s.db EXCEPT !.packages = (c :> EmptyDict) @@ @],
                    exc |-> "none"]
             s2 == ReadPackages(s1, c, Items(r.content))
         IN  IF ~IsDir(s.disk, <<c>>)
             THEN [s EXCEPT !.exc = "EmptyCategory"]
             ELSE IF r.exc # "none"
             THEN [s EXCEPT !.disk = r.disk, !.exc = r.exc]
             ELSE IF r.content.json = {}
             THEN [s EXCEPT !.disk = r.disk, !.exc = "EmptyCategory"]
             ELSE IF s2.exc # "none" THEN s2
             ELSE ReadCategories(s2, Tail(order))

\* read() that tests the pair returned by check_manifest instead of its
\* first component, and so never raises on a mismatch
read_unverified(d, tree, order) ==
    LET cm == check_manifest(d)
        ri == FileJSON_read(cm.disk, <<INFO_NAME>>, {})
        rc == FileJSON_read(ri.disk, <<CATEGORIES_NAME>>, {})
        t1 == [tree EXCEPT !.info = LoadDict(ri.content)]
        t2 == [t1 EXCEPT !.categories = LoadNested(rc.content)]
    IN  IF cm.exc # "none"
        THEN [disk |-> cm.disk, db |-> tree, exc |-> cm.exc]
        ELSE IF ri.exc # "none"
        THEN [disk |-> ri.disk, db |-> tree, exc |-> ri.exc]
        ELSE IF rc.exc # "none"
        THEN [disk |-> rc.disk, db |-> t1, exc |-> rc.exc]
        ELSE ReadCategories([disk |-> rc.disk, db |-> t2, exc |-> "none"],
                            SelectSeq(order, LAMBDA c : c \in DOMAIN t2.categories))

\* read(): check_manifest first, then info.json, categories.json and the
\* categories; `order` is the order in which the loaded categories are visited
read(d, tree, order) ==
    LET cm == check_manifest(d)
        ri == FileJSON_read(cm.disk, <<INFO_NAME>>, {})
        rc == FileJSON_read(ri.disk, <<CATEGORIES_NAME>>, {})
        t1 == [tree EXCEPT !.info = LoadDict(ri.content)]
        t2 == [t1 EXCEPT !.categories = LoadNested(rc.content)]
    IN  IF cm.exc # "none"
        THEN [disk |-> cm.disk, db |-> tree, exc |-> cm.exc]
        ELSE IF ~cm.val[1]
        THEN [disk |-> cm.disk, db |-> tree, exc |-> "ManifestError"]
        ELSE IF ri.exc # "none"
        THEN [disk |-> ri.disk, db |-> tree, exc |-> ri.exc]
        ELSE IF rc.exc # "none"
        THEN [disk |-> rc.disk, db |-> t1, exc |-> rc.exc]
        ELSE ReadCategories([disk |-> rc.disk, db |-> t2, exc |-> "none"],
                            SelectSeq(order, LAMBDA c : c \in DOMAIN t2.categories))

-----------------------------------------------------------------------------
(* Tree operations *)

\* add_category(category): description defaults to {}
add_category(tree, c) ==
    [tree EXCEPT !.categories = (c :> EmptyDict) @@ @,
                 !.packages = (c :> EmptyDict) @@ @]

\* add_package that creates the category slot instead of raising
add_package_autocreate(tree, pkg, rec) ==
    LET c == pkg[1]
        name == pkg[2]
        v == pkg[3]
        t0 == IF c \notin DOMAIN tree.packages
              THEN [tree EXCEPT !.packages = (c :> EmptyDict) @@ @]
              ELSE tree
        t1 == IF name \notin DOMAIN t0.packages[c]
              THEN [t0 EXCEPT !.packages[c] = (name :> EmptyDict) @@ @]
              ELSE t0
    IN  [db |-> [t1 EXCEPT !.packages[c][name] = (v :> rec) @@ @], exc |-> "none"]

\* add_package(package, description)
add_package(tree, pkg, rec) ==
    LET c == pkg[1]
        name == pkg[2]
        v == pkg[3]
        t1 == IF name \notin DOMAIN tree.packages[c]
              THEN [tree EXCEPT !.packages[c] = (name :> EmptyDict) @@ @]
              ELSE tree
    IN  IF c \notin DOMAIN tree.packages
        THEN [db |-> tree, exc |-> "NonExistentCategory"]
        ELSE [db |-> [t1 EXCEPT !.packages[c][name] = (v :> rec) @@ @],
              exc |-> "none"]

-----------------------------------------------------------------------------
(* The remote end of sync() *)

Remotes == {"unreachable", "badarchive", "good", "corrupt"}

\* the tree a remote generate() wrote
RemoteDb ==
    [info |-> ("repo" :> "remote"),
     categories |-> ("app-test" :> EmptyDict),
     packages |-> ("app-test" :> ("metadata_tester" :>
                      ("0.1" :> ("description" :> "testing ebuild"))))]

\* the snapshot in the archive: the tree as written and manifested remotely
SnapshotGood ==
    manifest(write(reset_uri(<<>>, "", RemoteUri).disk, RemoteDb, <<"app-test">>).disk).disk

\* the same snapshot with a byte of info.json changed after the manifest
SnapshotCorrupt ==
    [SnapshotGood EXCEPT ![<<INFO_NAME>>].flip = 1]

RemoteFiles(r) == IF r = "corrupt" THEN SnapshotCorrupt ELSE SnapshotGood

\* copy_all(src, dst) into a directory that holds no directory of src
copy_all(src, dst) == src @@ dst

-----------------------------------------------------------------------------
(* State *)

Perms(S) ==
    {s \in [1..Cardinality(S) -> S] : \A i, j \in DOMAIN s : s[i] = s[j] => i = j}

-----------------------------------------------------------------------------
(* Ebuild generation (g_sorcery/ebuild.py) *)

\* A template file is a sequence of pieces: literal text, a %(key)s
\* placeholder, the escape %%, a % that starts no conversion, a newline.
Text(str) == [t |-> "text", s |-> str]
Key(k) == [t |-> "key", s |-> k]
Percent == [t |-> "percent", s |-> "%%"]
BadFormat == [t |-> "bad", s |-> "%"]
Newline == [t |-> "nl", s |-> "\n"]

\* the description of the package of tests/test_ebuild.py, cut to its
\* string entries used by templates
ebuild_data == ("description" :> "testing ebuild") @@ ("array" :> "(a b c d)")
EbuildRecords == Records \cup {ebuild_data}

TemplateFiles ==
    { <<Text("TEST_SUBST="), Key("array"), Newline>>,
      <<>>,
      <<Text("D="), Key("description"), Newline, Newline>>,
      <<Key("array"), Newline, Text("inherit g-test"), Newline, Newline,
        Text("DESCRIPTION="), Key("description"), Newline>>,
      <<Text("EAPI=5")>>,
      <<Text("H="), Key("homepage"), Newline>>,
      <<Text("EAPI=5"), Newline, Text("rate 100"), BadFormat, Newline>>,
      <<Text("rate 100"), Percent, Newline>> }

\* str.split('\n'): the pieces between the newlines, at least one element
RECURSIVE Split(_, _)
Split(text, line) ==
    IF text = <<>> THEN <<line>>
    ELSE IF Head(text).t = "nl" THEN <<line>> \o Split(Tail(text), <<>>)
    ELSE Split(Tail(text), Append(line, Head(text)))

\* EbuildGeneratorFromFile.get_template keeping the element after the last
\* newline
get_template_keep_last(file) == Split(file, <<>>)

\* EbuildGeneratorFromFile.get_template: f.read().split('\n'), without its
\* last element when that is ''
get_template(file) ==
    LET ebuild_ == Split(file, <<>>)
    IN  IF ebuild_[Len(ebuild_)] = <<>> THEN SubSeq(ebuild_, 1, Len(ebuild_) - 1)
        ELSE ebuild_

\* line % description: the formatted string, or the exception raised
RECURSIVE Format(_, _)
Format(line, description) ==
    IF line = <<>> THEN [str |-> "", exc |-> "none"]
    ELSE LET h == Head(line)
             rest == Format(Tail(line), description)
         IN  IF h.t = "key" /\ h.s \notin DOMAIN description
             THEN [str |-> "", exc |-> "KeyError"]
             ELSE IF h.t = "bad" THEN [str |-> "", exc |-> "ValueError"]
             ELSE IF rest.exc # "none" THEN rest
             ELSE [str |-> (IF h.t = "key" THEN description[h.s]
                            ELSE IF h.t = "percent" THEN "%"
                            ELSE h.s) \o rest.str,
                   exc |-> "none"]

\* EbuildGenerator.process: ValueError becomes DependencyError, any other
\* exception of the substitution leaves process as it is
RECURSIVE process(_, _)
process(template, description) ==
    IF template = <<>> THEN [out |-> <<>>, exc |-> "none"]
    ELSE LET f == Format(Head(template), description)
             rest == process(Tail(template), description)
         IN  IF f.exc = "ValueError" THEN [out |-> <<>>, exc |-> "DependencyError"]
             ELSE IF f.exc # "none" THEN [out |-> <<>>, exc |-> f.exc]
             ELSE IF rest.exc # "none" THEN rest
             ELSE [out |-> <<f.str>> \o rest.out, exc |-> "none"]

\* PackageDB.get_package_description: a lookup by category, name, version
get_package_description(tree, pkg) ==
    IF /\ pkg[1] \in DOMAIN tree.packages
       /\ pkg[2] \in DOMAIN tree.packages[pkg[1]]
       /\ pkg[3] \in DOMAIN tree.packages[pkg[1]][pkg[2]]
    THEN [description |-> tree.packages[pkg[1]][pkg[2]][pkg[3]], exc |-> "none"]
    ELSE [description |-> EmptyDict, exc |-> "KeyError"]

\* EbuildGenerator.generate with the get_template of EbuildGeneratorFromFile
ebuild_generate(tree, pkg, file) ==
    LET d == get_package_description(tree, pkg)
    IN  IF d.exc # "none" THEN [out |-> <<>>, exc |-> d.exc]
        ELSE process(get_template(file), d.description)

NoEbuild == [package |-> <<>>, file |-> <<>>, out |-> <<>>]

NoVal == <<TRUE, <<>>>>
Ret(op, arg, exc, val) == [op |-> op, arg |-> arg, exc |-> exc, val |-> val]
NoPre == [disk |-> <<>>, db |-> EmptyDb]

\* the call sequences after a completed write() that the history follows:
\* tree is the tree written, path the file changed by "corrupt"
Trails ==
    { <<"write">>, <<"write", "manifest">>, <<"write", "manifest", "corrupt">>,
      <<"write", "PackageDB">>, <<"write", "PackageDB", "read">>,
      <<"write", "manifest", "PackageDB">>,
      <<"write", "manifest", "PackageDB", "read">>,
      <<"generate">>, <<"generate", "read">>,
      <<"write", "manifest", "add">>, <<"write", "manifest", "delete">> }
Stale == [trail |-> <<>>, tree |-> EmptyDb, path |-> <<>>]
Step(f, op) ==
    IF Append(f.trail, op) \in Trails THEN [f EXCEPT !.trail = Append(@, op)] ELSE Stale
Corrupted(d) == {q \in DOMAIN d : d[q].flip = 1}

Init ==
    /\ db = EmptyDb
    /\ repo_uri = ""
    /\ db_uri = ""
    /\ disk = reset_uri(<<>>, "", "").disk
    /\ subclassed \in BOOLEAN
    /\ pc = "idle"
    /\ remote = "none"
    /\ download_dir = FALSE
    /\ temp_dir = FALSE
    /\ tempdb_dir = <<>>
    /\ tempdb_live = FALSE
    /\ ret = Ret("init", "", "none", NoVal)
    /\ registered = {}
    /\ fresh = Stale
    /\ pre = NoPre
    /\ staged = "none"
    /\ calls = 0
    /\ ebuild = NoEbuild

\* no scratch directory of an earlier sync() is left
NoScratch == ~download_dir /\ ~temp_dir /\ ~tempdb_live

\* what a call outside sync() leaves alone; the caller has dropped the
\* exception of an earlier sync() by the time it makes another call
Call ==
    /\ pc = "idle"
    /\ NoScratch
    /\ calls < MaxCalls
    /\ calls' = calls + 1
    /\ pre' = NoPre
    /\ staged' = "none"
    /\ remote' = "none"
    /\ UNCHANGED <<subclassed, pc, download_dir, temp_dir, tempdb_dir, tempdb_live>>

Aside == Call /\ ebuild' = NoEbuild

AddCategory(c) ==
    /\ Aside
    /\ db' = add_category(db, c)
    /\ ret' = Ret("add_category", c, "none", NoVal)
    /\ registered' = registered \cup {c}
    /\ fresh' = Stale
    /\ UNCHANGED <<repo_uri, db_uri, disk>>

AddPackage(pkg, rec) ==
    /\ Aside
    /\ LET r == add_package(db, pkg, rec)
       IN  /\ db' = r.db
           /\ ret' = Ret("add_package", pkg[1], r.exc, NoVal)
    /\ fresh' = Stale
    /\ UNCHANGED <<repo_uri, db_uri, disk, registered>>

Write(order) ==
    /\ Aside
    /\ LET r == write(disk, db, SelectSeq(order, LAMBDA c : c \in DOMAIN db.categories))
       IN  /\ disk' = r.disk
           /\ ret' = Ret("write", "", r.exc, NoVal)
           /\ fresh' = IF r.exc = "none"
                        THEN [trail |-> <<"write">>, tree |-> db, path |-> <<>>]
                        ELSE Stale
    /\ UNCHANGED <<db, repo_uri, db_uri, registered>>

Manifest ==
    /\ Aside
    /\ LET r == manifest(disk)
       IN  /\ disk' = r.disk
           /\ ret' = Ret("manifest", "", r.exc, NoVal)
           /\ fresh' = IF r.exc = "none" THEN Step(fresh, "manifest") ELSE Stale
    /\ UNCHANGED <<db, repo_uri, db_uri, registered>>

CheckManifest ==
    /\ Aside
    /\ LET r == check_manifest(disk)
       IN  /\ disk' = r.disk
           /\ ret' = Ret("check_manifest", "", r.exc, r.val)
    /\ UNCHANGED <<db, repo_uri, db_uri, registered, fresh>>

Read(order) ==
    /\ Aside
    /\ LET r == read(disk, db, order)
       IN  /\ disk' = r.disk
           /\ db' = r.db
           /\ ret' = Ret("read", "", r.exc, NoVal)
           /\ registered' = registered \cup DOMAIN r.db.categories
    /\ fresh' = Step(fresh, "read")
    /\ UNCHANGED <<repo_uri, db_uri>>

Clean ==
    /\ Aside
    /\ disk' = clean(repo_uri, db_uri).disk
    /\ db' = EmptyDb
    /\ ret' = Ret("clean", "", "none", NoVal)
    /\ fresh' = Stale
    /\ UNCHANGED <<repo_uri, db_uri, registered>>

\* EbuildGeneratorFromFile(package_db, filename).generate(package)
EbuildGenerate(pkg, file) ==
    /\ Call
    /\ LET r == ebuild_generate(db, pkg, file)
       IN  /\ ret' = Ret("ebuild_generate", pkg[1], r.exc, NoVal)
           /\ ebuild' = [package |-> pkg, file |-> file, out |-> r.out]
    /\ UNCHANGED <<db, repo_uri, db_uri, disk, registered, fresh>>

\* the calls a generate_tree() hook makes on the instance
HookCat(c) == [kind |-> "add_category", pkg |-> <<c, "", "">>, rec |-> EmptyDict]
HookPkg(pkg, rec) == [kind |-> "add_package", pkg |-> pkg, rec |-> rec]
Hooks ==
    { <<>>,
      <<HookCat("app-other")>>,
      <<HookCat("app-test"),
        HookPkg(<<"app-test", "metadata_tester", "0.1">>, ("description" :> "testing ebuild"))>>,
      <<HookPkg(<<"missing", "p", "1">>, EmptyDict)>> }

RECURSIVE generate_tree(_, _)
generate_tree(tree, hook) ==
    IF hook = <<>> THEN [db |-> tree, exc |-> "none"]
    ELSE LET h == Head(hook)
             r == IF h.kind = "add_category"
                  THEN [db |-> add_category(tree, h.pkg[1]), exc |-> "none"]
                  ELSE add_package(tree, h.pkg, h.rec)
         IN  IF r.exc # "none" THEN r ELSE generate_tree(r.db, Tail(hook))

\* generate(repo_uri): clean(), generate_tree(), write(), manifest()
generate(repo, dbu, hook, order) ==
    LET c == clean(repo, dbu)
        g == generate_tree(EmptyDb, hook)
        w == write(c.disk, g.db, SelectSeq(order, LAMBDA x : x \in DOMAIN g.db.categories))
        m == manifest(w.disk)
    IN  IF g.exc # "none" THEN [disk |-> c.disk, db |-> g.db, exc |-> g.exc]
        ELSE IF w.exc # "none" THEN [disk |-> w.disk, db |-> g.db, exc |-> w.exc]
        ELSE [disk |-> m.disk, db |-> g.db, exc |-> m.exc]

Generate(repo_arg, hook, order) ==
    /\ Aside
    /\ LET repo == IF repo_arg # "" THEN repo_arg ELSE repo_uri
           r == generate(repo, db_uri, hook, order)
       IN  /\ repo_uri' = repo
           /\ disk' = r.disk
           /\ db' = r.db
           /\ ret' = Ret("generate", repo_arg, r.exc, NoVal)
           /\ registered' = registered \cup DOMAIN r.db.categories
           /\ fresh' = IF r.exc = "none"
                        THEN [trail |-> <<"generate">>, tree |-> r.db, path |-> <<>>]
                        ELSE Stale
    /\ UNCHANGED db_uri

\* PackageDB(directory, repo_uri, db_uri): a new instance over the directory
\* takes the place of the old one
Reopen(repo_arg, db_arg) ==
    /\ Aside
    /\ LET r == reset_uri(disk, repo_arg, db_arg)
       IN  /\ disk' = r.disk
           /\ ret' = Ret("PackageDB", "", r.exc, NoVal)
           /\ IF r.exc = "none"
              THEN db' = EmptyDb /\ repo_uri' = r.repo_uri /\ db_uri' = r.db_uri
              ELSE UNCHANGED <<db, repo_uri, db_uri>>
           /\ fresh' = IF r.exc = "none" /\ repo_arg = "" /\ db_arg = ""
                        THEN Step(fresh, "PackageDB") ELSE Stale
    /\ UNCHANGED registered

\* the environment changes a byte of one file of the directory
Corrupt(q) ==
    /\ Aside
    /\ q \in DOMAIN disk
    /\ q # <<MANIFEST_NAME>>
    /\ disk[q].flip = 0
    /\ Cardinality(Corrupted(disk)) < MaxCorrupt
    /\ disk' = [disk EXCEPT ![q].flip = 1]
    /\ ret' = Ret("corrupt", "", "none", NoVal)
    /\ fresh' = IF Append(fresh.trail, "corrupt") \in Trails
                 THEN [fresh EXCEPT !.trail = Append(@, "corrupt"), !.path = q]
                 ELSE Stale
    /\ UNCHANGED <<db, repo_uri, db_uri, registered>>

\* a file that no call of the program writes
ExtraPaths == {<<"app-test", "notes.txt">>}

\* the environment adds a file that the manifest does not list
AddFile(q) ==
    /\ Aside
    /\ q \notin DOMAIN disk
    /\ disk' = FileJSON_write(disk, q, DumpDict(EmptyDict))
    /\ ret' = Ret("add", "", "none", NoVal)
    /\ fresh' = IF Append(fresh.trail, "add") \in Trails
                 THEN [fresh EXCEPT !.trail = Append(@, "add"), !.path = q]
                 ELSE Stale
    /\ UNCHANGED <<db, repo_uri, db_uri, registered>>

\* the files of d without q
Remove(d, q) == [x \in DOMAIN d \ {q} |-> d[x]]

\* the environment deletes a file that the manifest lists; the directories
\* above it stay, so the file is one whose directories hold other files
DeleteFile(q) ==
    /\ Aside
    /\ q \in DOMAIN disk
    /\ <<MANIFEST_NAME>> \in DOMAIN disk
    /\ disk[<<MANIFEST_NAME>>].flip = 0
    /\ \E m \in disk[<<MANIFEST_NAME>>].json : m[1] = q
    /\ \A k \in 1..(Len(q) - 1) : IsDir(Remove(disk, q), SubSeq(q, 1, k))
    /\ disk' = Remove(disk, q)
    /\ ret' = Ret("delete", "", "none", NoVal)
    /\ fresh' = IF Append(fresh.trail, "delete") \in Trails
                 THEN [fresh EXCEPT !.trail = Append(@, "delete"), !.path = q]
                 ELSE Stale
    /\ UNCHANGED <<db, repo_uri, db_uri, registered>>

-----------------------------------------------------------------------------
(* sync(), step by step *)

\* get_real_db_uri is declared without self: the call self.get_real_db_uri()
\* raises TypeError unless a subclass overrides the method
get_real_db_uri(overridden, uri) ==
    IF overridden THEN [uri |-> uri, exc |-> "none"]
    ELSE [uri |-> "", exc |-> "TypeError"]

\* sync(db_uri) up to the call of get_real_db_uri: clean() comes first
SyncCall(db_arg, r) ==
    /\ pc = "idle"
    /\ NoScratch
    /\ calls < MaxCalls
    /\ calls' = calls + 1
    /\ LET uri == IF db_arg # "" THEN db_arg ELSE db_uri
           real == get_real_db_uri(subclassed, uri)
       IN  /\ db_uri' = uri
           /\ disk' = clean(repo_uri, uri).disk
           /\ db' = EmptyDb
           /\ IF real.exc = "none"
              THEN /\ pc' = "fetch"
                   /\ ret' = Ret("sync", db_arg, "pending", NoVal)
              ELSE /\ pc' = "idle"
                   /\ ret' = Ret("sync", db_arg, real.exc, NoVal)
    /\ remote' = r
    /\ pre' = [disk |-> disk, db |-> db]
    /\ staged' = "none"
    /\ fresh' = Stale
    /\ UNCHANGED <<repo_uri, subclassed, ebuild, download_dir, temp_dir, tempdb_dir,
                   tempdb_live, registered>>

\* download_dir = TemporaryDirectory(); wget; a non-zero status raises
SyncFetch ==
    /\ pc = "fetch"
    /\ download_dir' = TRUE
    /\ IF remote = "unreachable"
       THEN pc' = "idle" /\ ret' = [ret EXCEPT !.exc = "SyncFailed"]
       ELSE pc' = "extract" /\ UNCHANGED ret
    /\ UNCHANGED <<calls, db, repo_uri, db_uri, disk, subclassed, ebuild, remote, temp_dir,
                   tempdb_dir, tempdb_live, registered, fresh, pre, staged>>

\* temp_dir = TemporaryDirectory(); every *.tar.gz is extracted into it
SyncExtract ==
    /\ pc = "extract"
    /\ temp_dir' = TRUE
    /\ IF remote = "badarchive"
       THEN pc' = "idle" /\ ret' = [ret EXCEPT !.exc = "ReadError"]
       ELSE pc' = "stage" /\ UNCHANGED ret
    /\ UNCHANGED <<calls, db, repo_uri, db_uri, disk, subclassed, ebuild, remote, download_dir,
                   tempdb_dir, tempdb_live, registered, fresh, pre, staged>>

\* `if not tempdb.check_manifest()`: the truth value of the returned pair
\* (result, errors), a non-empty tuple
Truthy(val) == Len(val) > 0

\* tempdb_dir = TemporaryDirectory(); tempdb = PackageDB(tempdb_dir.name);
\* the extracted directory is copied in; tempdb.check_manifest()
SyncStage ==
    /\ pc = "stage"
    /\ LET fresh_tempdb == reset_uri(<<>>, "", "").disk
           copied == copy_all(RemoteFiles(remote), fresh_tempdb)
           cm == check_manifest(copied)
       IN  /\ tempdb_dir' = cm.disk
           /\ tempdb_live' = TRUE
           /\ staged' = IF cm.exc # "none" THEN "error"
                         ELSE IF cm.val[1] THEN "ok" ELSE "mismatch"
           /\ IF cm.exc # "none"
              THEN pc' = "idle" /\ ret' = [ret EXCEPT !.exc = cm.exc]
              ELSE IF ~Truthy(cm.val)
              THEN pc' = "idle" /\ ret' = [ret EXCEPT !.exc = "ManifestCheckFailed"]
              ELSE pc' = "swap" /\ UNCHANGED ret
    /\ UNCHANGED <<calls, db, repo_uri, db_uri, disk, subclassed, ebuild, remote, download_dir,
                   temp_dir, registered, fresh, pre>>

\* self.clean(); copy_all(tempdb_dir.name, self.directory)
SyncSwap ==
    /\ pc = "swap"
    /\ disk' = copy_all(tempdb_dir, clean(repo_uri, db_uri).disk)
    /\ db' = EmptyDb
    /\ pc' = "verify"
    /\ UNCHANGED <<calls, repo_uri, db_uri, subclassed, ebuild, remote, download_dir, temp_dir,
                   tempdb_dir, tempdb_live, ret, registered, fresh, pre, staged,
          calls>>

\* `if not self.check_manifest()` on the directory after the swap
SyncVerify ==
    /\ pc = "verify"
    /\ LET cm == check_manifest(disk)
       IN  /\ disk' = cm.disk
           /\ IF cm.exc # "none"
              THEN pc' = "idle" /\ ret' = [ret EXCEPT !.exc = cm.exc]
              ELSE IF ~Truthy(cm.val)
              THEN pc' = "idle" /\ ret' = [ret EXCEPT !.exc = "ManifestCheckFailed"]
              ELSE pc' = "reload" /\ UNCHANGED ret
    /\ UNCHANGED <<calls, db, repo_uri, db_uri, subclassed, ebuild, remote, download_dir, temp_dir,
                   tempdb_dir, tempdb_live, registered, fresh, pre, staged>>

\* del download_dir, temp_dir, tempdb_dir; self.read()
SyncReload(order) ==
    /\ pc = "reload"
    /\ download_dir' = FALSE
    /\ temp_dir' = FALSE
    /\ tempdb_dir' = <<>>
    /\ tempdb_live' = FALSE
    /\ LET r == read(disk, db, order)
       IN  /\ disk' = r.disk
           /\ db' = r.db
           /\ ret' = [ret EXCEPT !.exc = r.exc]
           /\ registered' = registered \cup DOMAIN r.db.categories
    /\ pc' = "idle"
    /\ UNCHANGED <<calls, repo_uri, db_uri, subclassed, ebuild, remote, fresh, pre, staged>>

\* the TemporaryDirectory objects of a sync() that raised are finalized once
\* the exception and its traceback are dropped
Collect ==
    /\ pc = "idle"
    /\ download_dir \/ temp_dir \/ tempdb_live
    /\ download_dir' = FALSE
    /\ temp_dir' = FALSE
    /\ tempdb_dir' = <<>>
    /\ tempdb_live' = FALSE
    /\ UNCHANGED <<calls, db, repo_uri, db_uri, disk, subclassed, ebuild, pc, remote, ret,
                   registered, fresh, pre, staged>>

-----------------------------------------------------------------------------

Next ==
    \/ \E c \in Categories : AddCategory(c)
    \/ \E pkg \in PackageInputs, rec \in Records : AddPackage(pkg, rec)
    \/ \E order \in Perms(Categories) : Write(order)
    \/ Manifest
    \/ CheckManifest
    \/ \E order \in Perms(Categories) : Read(order)
    \/ Clean
    \/ \E a \in RepoArgs, b \in DbArgs : Reopen(a, b)
    \/ \E q \in DOMAIN disk : Corrupt(q)
    \/ \E a \in DbArgs, r \in Remotes : SyncCall(a, r)
    \/ SyncFetch
    \/ SyncExtract
    \/ SyncStage
    \/ SyncSwap
    \/ SyncVerify
    \/ \E order \in Perms(Categories) : SyncReload(order)
    \/ Collect

Spec == Init /\ [][Next]_vars

\* the calls on one instance that only build, store and load the tree
NextTree ==
    \/ \E c \in Categories : AddCategory(c)
    \/ \E pkg \in PackageInputs, rec \in Records : AddPackage(pkg, rec)
    \/ \E order \in Perms(Categories) : Write(order)
    \/ Manifest
    \/ \E order \in Perms(Categories) : Read(order)
    \/ Clean

SpecTree == Init /\ [][NextTree]_vars

\* generating or storing a tree with its manifest, checking and loading it,
\* while the environment adds and deletes files of the directory
NextManifest ==
    \/ \E c \in Categories : AddCategory(c)
    \/ \E pkg \in PackageInputs, rec \in Records : AddPackage(pkg, rec)
    \/ \E order \in Perms(Categories) : Write(order)
    \/ Manifest
    \/ CheckManifest
    \/ \E order \in Perms(Categories) : Read(order)
    \/ \E a \in RepoArgs, h \in Hooks, order \in Perms(Categories) : Generate(a, h, order)
    \/ \E q \in ExtraPaths : AddFile(q)
    \/ \E q \in DOMAIN disk : DeleteFile(q)

SpecManifest == Init /\ [][NextManifest]_vars

\* building a tree and generating ebuilds from it
NextEbuild ==
    \/ \E c \in Categories : AddCategory(c)
    \/ \E pkg \in PackageInputs, rec \in EbuildRecords : AddPackage(pkg, rec)
    \/ \E pkg \in PackageInputs, file \in TemplateFiles : EbuildGenerate(pkg, file)

SpecEbuild == Init /\ [][NextEbuild]_vars

\* every file of the directory is one of the model's paths
PathsKnown == \A q \in DOMAIN disk : \E i \in DOMAIN SortedPaths : SortedPaths[i] = q

-----------------------------------------------------------------------------
(* Properties *)

SyncEnded == pc = "idle" /\ ret.op = "sync"
Raised(r) == r.exc \notin {"none", "pending"}

\* C1: when the staging check_manifest of a sync() reports a mismatch, the
\* sync() raises and the directory is, file for file, what it was before
\* the call.
C1_SyncAtomicity ==
    (SyncEnded /\ staged = "mismatch") => (Raised(ret) /\ disk = pre.disk)

\* C2: the swap of a sync() happens only after the staging check_manifest
\* reported ok; after a reported mismatch the sync() raises and nothing of
\* the staging tree is copied into the directory.
C2_SwapOnlyAfterStagingOk ==
    /\ pc \in {"verify", "reload"} => staged = "ok"
    /\ (SyncEnded /\ staged = "mismatch") =>
          (Raised(ret) /\ disk = clean(repo_uri, db_uri).disk)

\* C3: when the fetch step or the extract step of a sync() fails, the sync()
\* raises and leaves the directory and the in-memory tree as they were
\* before the call.
\* (Stated for a sync() called without a db_uri argument, which gives the
\* call no new URI to store.)
C3_FetchExtractFailureKeepsTree ==
    (SyncEnded /\ ret.arg = "" /\ ret.exc \in {"SyncFailed", "ReadError"}) =>
        (disk = pre.disk /\ db = pre.db)

\* C4: a sync() from a remote that is fetchable, extracts and holds a tree
\* whose manifest verifies ends without raising, with the in-memory tree
\* equal to the tree of the remote snapshot.
C4_SyncLoadsRemoteTree ==
    (SyncEnded /\ remote = "good") => (ret.exc = "none" /\ db = RemoteDb)

\* C5: write() followed by read() on a new instance over the same directory
\* yields the tree that was written.
C5_WriteReadRoundTrip ==
    (ret.op = "read" /\ fresh.trail = <<"write", "PackageDB", "read">>) =>
        (ret.exc = "none" /\ db = fresh.tree)

\* a tracked file of the tree last written: one of the three fixed files or
\* a file below the directory of one of its categories
Tracked(q) ==
    q \in FixedNames \/ (Len(q) > 1 /\ q[1] \in DOMAIN fresh.tree.categories)

\* C6: after write() and manifest(), check_manifest() returns (True, []);
\* after the content of exactly one tracked file is then changed, it
\* returns (False, [p]) with p the path of that file.
C6_ManifestDetectsCorruption ==
    /\ (ret.op = "check_manifest" /\ fresh.trail = <<"write", "manifest">>) =>
          (ret.exc = "none" /\ ret.val = <<TRUE, <<>>>>)
    /\ (ret.op = "check_manifest" /\ fresh.trail = <<"write", "manifest", "corrupt">>
          /\ Tracked(fresh.path)) =>
          (ret.exc = "none" /\ ret.val = <<FALSE, <<fresh.path>>>>)

C6_Witness ==
    /\ ret.op = "check_manifest"
    /\ fresh.trail = <<"write", "manifest", "corrupt">>
    /\ Len(fresh.path) > 1
    /\ Tracked(fresh.path)
    /\ ret.val = <<FALSE, <<fresh.path>>>>

\* the categories of the tree that own no package
EmptyCategories(tree) ==
    {c \in DOMAIN tree.categories :
        c \notin DOMAIN tree.packages \/ tree.packages[c] = EmptyDict}

\* C7: a write() of a tree in which a registered category owns no package
\* fails with the structural error 'Empty category'.
C7_EmptyCategoryRejected ==
    (ret.op = "write" /\ EmptyCategories(db) # {}) => ret.exc = "EmptyCategory"

\* C8: add_package for a category that was never registered fails with the
\* not-found error and leaves the in-memory tree unchanged.
C8_UnknownCategoryRejected ==
    [][(calls' = calls + 1 /\ ret'.op = "add_package" /\ ret'.arg \notin registered)
          => (ret'.exc = "NonExistentCategory" /\ db' = db)]_vars

C8_Witness ==
    /\ ret.op = "add_package"
    /\ ret.arg = "app-test"
    /\ ret.arg \notin registered
    /\ ret.exc = "NonExistentCategory"
    /\ db.categories # EmptyDict

\* C9: a read() on a directory whose check_manifest reports a mismatched
\* path, or raises, fails and leaves the in-memory tree as it was.
C9_ReadVerifiesFirst ==
    [][(calls' = calls + 1 /\ ret'.op = "read" /\
          (check_manifest(disk).exc # "none" \/ ~check_manifest(disk).val[1]))
          => (Raised(ret') /\ db' = db
              /\ (check_manifest(disk).exc = "none" => ret'.exc = "ManifestError"))]_vars

C9_Witness ==
    /\ ret.op = "read"
    /\ ret.exc = "ManifestError"
    /\ db.categories # EmptyDict
    /\ Corrupted(disk) # {}

\* C10: every category that is a key of packages is a key of categories.
C10_PackagesWithinCategories ==
    DOMAIN db.packages \subseteq DOMAIN db.categories

\* C11: after a generate() that completed, check_manifest() returns
\* (True, []) and a read() succeeds and yields the generated tree.
C11_GenerateSelfConsistent ==
    /\ (ret.op = "check_manifest" /\ fresh.trail = <<"generate">>) =>
          (ret.exc = "none" /\ ret.val = <<TRUE, <<>>>>)
    /\ (ret.op = "read" /\ fresh.trail = <<"generate", "read">>) =>
          (ret.exc = "none" /\ db = fresh.tree)

\* the manifest of directory d lists the current hash of every tracked file
\* of the tree, and check_manifest returns (True, [])
ManifestCurrent(d, tree) ==
    /\ <<MANIFEST_NAME>> \in DOMAIN d
    /\ d[<<MANIFEST_NAME>>].flip = 0
    /\ \A q \in FixedNames \cup {x \in DOMAIN d : Len(x) > 1 /\ x[1] \in DOMAIN tree.categories} :
          /\ q \in DOMAIN d
          /\ <<q, Md5(d[q])>> \in d[<<MANIFEST_NAME>>].json
    /\ check_manifest(d).exc = "none"
    /\ check_manifest(d).val = <<TRUE, <<>>>>

\* C12: right after any completed write() the manifest lists
\* the current hash of every tracked file, so check_manifest() returns
\* (True, []).
C12_ManifestAfterWrite ==
    (ret.op = "write" /\ ret.exc = "none") => ManifestCurrent(disk, db)

\* the positions of the newlines of a template file, and its i-th newline
Newlines(file) == {k \in 1..Len(file) : file[k].t = "nl"}
NthNewline(file, i) ==
    CHOOSE k \in Newlines(file) : Cardinality({j \in Newlines(file) : j <= k}) = i

\* the i-th line of a template file: what stands between newline i-1 and
\* newline i (or the end of the file)
LineOfFile(file, i) ==
    LET first == IF i = 1 THEN 1 ELSE NthNewline(file, i - 1) + 1
        last == IF i <= Cardinality(Newlines(file)) THEN NthNewline(file, i) - 1
                ELSE Len(file)
    IN  SubSeq(file, first, last)

\* the number of lines of a template file, an empty last line not counted
LinesOfFile(file) ==
    LET n == Cardinality(Newlines(file))
    IN  IF LineOfFile(file, n + 1) = <<>> THEN n ELSE n + 1

\* a line with every placeholder replaced by the value of its key
RECURSIVE Substituted(_, _)
Substituted(line, record) ==
    IF line = <<>> THEN ""
    ELSE (IF Head(line).t = "key" THEN record[Head(line).s] ELSE Head(line).s)
            \o Substituted(Tail(line), record)

\* the file holds only text, newlines and placeholders of keys of the record
Substitutable(file, record) ==
    \A k \in 1..Len(file) :
        \/ file[k].t \in {"text", "nl"}
        \/ file[k].t = "key" /\ file[k].s \in DOMAIN record

\* C13: for a package of the database and a template file made of text and
\* of %(key)s placeholders whose keys the package's record has,
\* EbuildGeneratorFromFile.generate returns one line per line of the file,
\* in order, a single empty last line dropped, each line with every
\* placeholder replaced by the record's value of the key.
C13_TemplateRendering ==
    LET d == get_package_description(db, ebuild.package)
    IN  (ret.op = "ebuild_generate" /\ d.exc = "none"
            /\ Substitutable(ebuild.file, d.description)) =>
          /\ ret.exc = "none"
          /\ Len(ebuild.out) = LinesOfFile(ebuild.file)
          /\ \A i \in 1..Len(ebuild.out) :
                ebuild.out[i] = Substituted(LineOfFile(ebuild.file, i), d.description)

C13_Witness ==
    /\ ret.op = "ebuild_generate"
    /\ ret.exc = "none"
    /\ Len(ebuild.file) = 8
    /\ ebuild.out = <<"(a b c d)", "inherit g-test", "", "DESCRIPTION=testing ebuild">>

\* the template refers to a key the record of the package lacks
MissingKey(file, record) ==
    \E k \in 1..Len(file) : file[k].t = "key" /\ file[k].s \notin DOMAIN record

\* C19: when a line of the template refers to a key that the record of the
\* package lacks, generate() raises DependencyError.
C19_MissingKeyIsDependencyError ==
    LET d == get_package_description(db, ebuild.package)
    IN  (ret.op = "ebuild_generate" /\ d.exc = "none"
            /\ MissingKey(ebuild.file, d.description)) =>
          ret.exc = "DependencyError"

\* C14: a sync() goes on to its reload step, read(), only when the
\* check_manifest() of the directory after the swap reported no mismatch;
\* on a mismatch it raises instead.
C14_PostSwapMismatchStopsSync ==
    pc = "reload" =>
        (check_manifest(disk).exc = "none" /\ check_manifest(disk).val[1])

\* C15: when a sync() has ended, by returning or by raising at any of its
\* steps, none of its scratch directories exists any more.
C15_ScratchDiscardedAtEnd ==
    SyncEnded => NoScratch

\* C16: check_manifest() on a directory without manifest file raises an
\* error that is not the error of a malformed manifest; on a manifest file
\* that lacks the entry of info.json, categories.json or uri.json it raises
\* the error of a malformed manifest; in neither case it returns a pair.
C16_MissingAndMalformedManifest ==
    [][(calls' = calls + 1 /\ ret'.op = "check_manifest") =>
          /\ <<MANIFEST_NAME>> \notin DOMAIN disk =>
                (Raised(ret') /\ ret'.exc # "BadManifest")
          /\ (/\ <<MANIFEST_NAME>> \in DOMAIN disk
              /\ disk[<<MANIFEST_NAME>>].flip = 0
              /\ \E name \in FixedNames :
                    \A m \in disk[<<MANIFEST_NAME>>].json : m[1] # name) =>
                ret'.exc = "BadManifest"]_vars

\* C17: after write() and manifest(), adding a file that the manifest does
\* not list, or deleting a file that it lists, goes unnoticed by
\* check_manifest(): it returns without raising, and the path is not among
\* the mismatched ones.
C17_OnlyHashMismatchesDetected ==
    (ret.op = "check_manifest"
        /\ fresh.trail \in {<<"write", "manifest", "add">>, <<"write", "manifest", "delete">>}) =>
       /\ ret.exc = "none"
       /\ \A i \in 1..Len(ret.val[2]) : ret.val[2][i] # fresh.path

\* C18: after a completed write() the record files below the directory of
\* every registered category are exactly the files of the current tree:
\* its <version>.json, versions.json and packages.json files with the
\* tree's content, and no file of an earlier write() besides them.
C18_WriteReplacesRecords ==
    (ret.op = "write" /\ ret.exc = "none") =>
        \A c \in DOMAIN db.categories :
            /\ Walk(disk, <<c>>) \ ExtraPaths = DOMAIN CategoryFiles(db, c)
            /\ \A q \in DOMAIN CategoryFiles(db, c) : disk[q] = CategoryFiles(db, c)[q]

\* C20: when check_manifest() on a directory returns (True, []), the
\* construction of a new PackageDB over it, with or without URI arguments,
\* leaves a directory on which check_manifest() returns (True, []) and
\* read() succeeds.
C20_OpeningKeepsManifestValid ==
    [][(/\ calls' = calls + 1
        /\ ret'.op = "PackageDB"
        /\ check_manifest(disk).exc = "none"
        /\ check_manifest(disk).val = <<TRUE, <<>>>>) =>
          /\ check_manifest(disk').exc = "none"
          /\ check_manifest(disk').val = <<TRUE, <<>>>>
          /\ \A order \in Perms(Categories) : read(disk', db', order).exc = "none"]_vars

\* C21: a call of check_manifest(), whether it returns a pair or raises,
\* creates, changes and deletes no file of the directory and leaves the
\* in-memory tree as it was.
C21_CheckManifestReadOnly ==
    [][(calls' = calls + 1 /\ ret'.op = "check_manifest") =>
          (disk' = disk /\ db' = db)]_vars

====
